---- MODULE Spec2Model ----
(***************************************************************************)
(* Conversation store (src/src/lib/conversationStateManager.ts) and turn   *)
(* orchestrator (src/src/components/ChatInterface.tsx, final variant,     *)
(* lines 505-1107) of the AI Coffeehouse chat.                            *)
(*                                                                         *)
(* The browser runs one task at a time.  Every action below is one task:  *)
(* a UI event handler, a timer callback, or the continuation of an async  *)
(* function after an await.  React state and the ref that mirrors it      *)
(* (recipient/recipientRef, isLoading/isLoadingRef, ...) are one variable:*)
(* the mirroring effects run before the next task.                        *)
(***************************************************************************)
EXTENDS Integers, Sequences, FiniteSets, TLC

\* ---------------------------------------------------------------- bounds
MaxClock == 1
MaxRounds == 2
MaxReloads == 1
MaxLimit == 1
MaxAgentEdits == 1
MaxAutoRounds == 3

\* ------------------------------------------------------------- constants
NoLimit == 0
AgentIds == {"A", "B"}
AgentLists == {<<>>, <<"A", "B">>}
Modes == {"group"} \cup AgentIds
Recipients == {"everyone"} \cup AgentIds
NoMode == "null"
Outcomes == {"ok", "fail"}
NoCall == [agent |-> "none", input |-> <<>>, outcome |-> "none"]
NoHeld == [from |-> "none", mode |-> NoMode, live |-> FALSE, taken |-> <<>>, value |-> <<>>]

VARIABLES
  conversationStates,      \* Map<ConversationMode, Message[]>
  currentMode,             \* the store's current mode
  persistedConversations,  \* localStorage "coffeehouse-conversations"
  persistedMode,           \* localStorage "coffeehouse-conversation-mode"
  agents,                  \* configured agents, in configuration order
  recipient,               \* recipient / recipientRef
  conversationMode,        \* conversationMode / conversationModeRef (UI)
  isLoading,               \* isLoading / isLoadingRef
  autoConversationActive,  \* autoConversationActiveRef
  autoTurnTimeout,         \* a scheduled executeAutoTurn timer is pending
  autoTurnInProgress,      \* autoTurnInProgressRef
  autoRoundLimit,          \* autoRoundLimitRef (NoLimit = null)
  autoRoundCount,          \* autoRoundCountRef
  now,                     \* the last value read from Date.now()
  sendPc,                  \* position of handleSendMessage
  sendMode,                \* messageConversationMode
  sendCalls,               \* calls of the manual round: agent, input, outcome, state
  sendIdx,                 \* loop index i of the commit loop
  autoPc,                  \* position of executeAutoTurn
  autoAgents,              \* currentAgents
  autoIdx,                 \* loop index i of the auto round
  autoCall,                \* call in flight in the auto round
  anyResponses,            \* anyResponses
  rounds,                  \* number of rounds started; the text of a round
  reloads,                 \* number of page loads after the first
  commitRounds,            \* while active: auto rounds since start that committed a reply
  limitStable,             \* while active: the round limit is the one set at start
  held,                    \* the array a caller of the store got from its last read
  notified,                \* completion toasts surfaced since auto-chat was last started
  agentEdits               \* number of times the agent list was edited in the settings

storeVars == <<conversationStates, currentMode>>
diskVars == <<persistedConversations, persistedMode>>
uiVars == <<recipient, conversationMode>>
sendVars == <<sendPc, sendMode, sendCalls, sendIdx>>
autoLoopVars == <<autoPc, autoAgents, autoIdx, autoCall, anyResponses>>
autoFlagVars == <<autoConversationActive, autoTurnTimeout, autoTurnInProgress>>
ghostVars == <<commitRounds, limitStable>>
vars == <<conversationStates, currentMode, persistedConversations, persistedMode,
          agents, recipient, conversationMode, isLoading,
          autoConversationActive, autoTurnTimeout, autoTurnInProgress,
          autoRoundLimit, autoRoundCount, now,
          sendPc, sendMode, sendCalls, sendIdx,
          autoPc, autoAgents, autoIdx, autoCall, anyResponses,
          rounds, reloads, commitRounds, limitStable, held,
          notified, agentEdits>>

\* ------------------------------------------------------------- messages
\* Message (src/src/types/agent.ts); the id is a React key that neither the
\* store nor the orchestrator reads, and is left out.
Message(sender, rcpt, content, timestamp) ==
  [sender |-> sender, recipient |-> rcpt,
   content |-> content, timestamp |-> timestamp]

\* ---------------------------------------------------------------- store
EmptyStates == [m \in {"group"} |-> <<>>]

getMessages(cs, mode) == IF mode \in DOMAIN cs THEN cs[mode] ELSE <<>>

\* variant: the message is put at the front of the bucket (unshift for push)
addMessageToModeAtFront(cs, mode, message) ==
  [k \in DOMAIN cs \cup {mode} |->
     IF k = mode THEN <<message>> \o getMessages(cs, mode) ELSE cs[k]]

\* addMessageToMode (lines 89-92)
addMessageToMode(cs, mode, message) ==
  [k \in DOMAIN cs \cup {mode} |->
     IF k = mode THEN Append(getMessages(cs, mode), message) ELSE cs[k]]

\* variant: the mode is switched without creating the missing bucket
switchModeWithoutCreate(cs, mode) == cs

\* variant: switching to a mode starts its conversation afresh
switchModeResetting(cs, mode) ==
  [k \in DOMAIN cs \cup {mode} |-> IF k = mode THEN <<>> ELSE cs[k]]

\* switchMode (lines 30-37): the bucket is created when it is missing
switchMode(cs, mode) ==
  [k \in DOMAIN cs \cup {mode} |-> IF k \in DOMAIN cs THEN cs[k] ELSE <<>>]

\* Array.prototype.sort with (a, b) => a.timestamp - b.timestamp: a stable
\* sort, computed here by insertion from the left.
RECURSIVE InsertByTimestamp(_, _)
InsertByTimestamp(s, m) ==
  IF s = <<>> THEN <<m>>
  ELSE IF s[Len(s)].timestamp <= m.timestamp THEN Append(s, m)
  ELSE Append(InsertByTimestamp(SubSeq(s, 1, Len(s) - 1), m), s[Len(s)])

RECURSIVE SortByTimestamp(_)
SortByTimestamp(s) ==
  IF s = <<>> THEN <<>>
  ELSE InsertByTimestamp(SortByTimestamp(SubSeq(s, 1, Len(s) - 1)), s[Len(s)])

\* variant: the agent's own private replies are left out of the merge
getMessagesForAgentWithoutOwnReplies(cs, agentId) ==
  SortByTimestamp(SelectSeq(getMessages(cs, agentId), LAMBDA m : m.sender # agentId)
                    \o getMessages(cs, "group"))

\* variant: only the group conversation is handed to the agent, the private
\* bucket is left out
getMessagesForAgentGroupOnly(cs, agentId) ==
  SortByTimestamp(getMessages(cs, "group"))

getMessagesForAgent(cs, agentId) ==
  SortByTimestamp(getMessages(cs, agentId) \o getMessages(cs, "group"))

importStatesMode(states, mode) ==
  IF mode # NoMode /\ mode \in DOMAIN states THEN mode ELSE "group"

\* variant: the imported buckets are laid over the buckets already there
importStatesMerging(cs, states) ==
  [k \in DOMAIN cs \cup DOMAIN states |->
     IF k \in DOMAIN states THEN states[k] ELSE cs[k]]

\* importStates (lines 188-191): the Map is cleared, then every entry of the
\* blob is set
importStates(cs, states) == [k \in DOMAIN states |-> states[k]]

\* variant: conversations without messages are not exported
exportStatesWithoutEmpty(cs) ==
  [k \in {m \in DOMAIN cs : cs[m] # <<>>} |-> cs[k]]

\* exportStates (lines 169-182): one property per bucket of the Map
exportStates(cs) == [k \in DOMAIN cs |-> cs[k]]

\* getAvailableModes (lines 209-211)
getAvailableModes(cs) == DOMAIN cs

\* ------------------------------------------------------------------ Init
Init ==
  /\ conversationStates = EmptyStates
  /\ currentMode = "group"
  /\ persistedConversations = [has |-> FALSE, states |-> <<>>, malformed |-> "no"]
  /\ persistedMode = NoMode
  /\ agents \in AgentLists
  /\ recipient = "everyone"
  /\ conversationMode = "group"
  /\ isLoading = FALSE
  /\ autoConversationActive = FALSE
  /\ autoTurnTimeout = FALSE
  /\ autoTurnInProgress = FALSE
  /\ autoRoundLimit = NoLimit
  /\ autoRoundCount = 0
  /\ now = 0
  /\ sendPc = "idle"
  /\ sendMode = "group"
  /\ sendCalls = <<>>
  /\ sendIdx = 0
  /\ autoPc = "idle"
  /\ autoAgents = <<>>
  /\ autoIdx = 0
  /\ autoCall = NoCall
  /\ anyResponses = FALSE
  /\ rounds = 0
  /\ reloads = 0
  /\ commitRounds = {}
  /\ limitStable = TRUE
  /\ held = NoHeld
  /\ notified = 0
  /\ agentEdits = 0

\* Date.now(): now is the value of the last read; the next read returns a
\* value that is not smaller.
DateNow == now..MaxClock

\* stopAutoConversation (lines 660-666), as called from another handler
StopEffect ==
  /\ autoConversationActive' = FALSE
  /\ autoTurnTimeout' = FALSE
  /\ commitRounds' = {}
  /\ limitStable' = TRUE

\* saveConversationState(mode) (lines 632-636) on the store contents cs
Saved(cs, mode) ==
  /\ persistedConversations' = [has |-> TRUE, states |-> exportStates(cs),
                                malformed |-> "no"]
  /\ persistedMode' = mode

\* variant: selecting a private recipient does not stop auto-chat
handleRecipientChangeWithoutStop(newRecipient) ==
  LET newMode == IF newRecipient = "everyone" THEN "group" ELSE newRecipient IN
  /\ newRecipient \in {"everyone"} \cup {agents[i] : i \in DOMAIN agents}
  /\ UNCHANGED <<autoConversationActive, autoTurnTimeout, ghostVars>>
  /\ recipient' = newRecipient
  /\ IF newMode # conversationMode
       THEN /\ conversationStates' = switchMode(conversationStates, newMode)
            /\ currentMode' = newMode
            /\ conversationMode' = newMode
            /\ persistedMode' = newMode
       ELSE UNCHANGED <<conversationStates, currentMode, conversationMode, persistedMode>>
  /\ UNCHANGED <<persistedConversations, agents, agentEdits, held, notified, isLoading,
                 autoTurnInProgress, autoRoundLimit, autoRoundCount, now, sendVars,
                 autoLoopVars, rounds, reloads>>

\* ---------------------------------------------- handleRecipientChange
handleRecipientChange(newRecipient) ==
  LET newMode == IF newRecipient = "everyone" THEN "group" ELSE newRecipient IN
  /\ newRecipient \in {"everyone"} \cup {agents[i] : i \in DOMAIN agents}
  /\ IF autoConversationActive /\ newRecipient # "everyone"
       THEN StopEffect
       ELSE UNCHANGED <<autoConversationActive, autoTurnTimeout, ghostVars>>
  /\ recipient' = newRecipient
  /\ IF newMode # conversationMode
       THEN /\ conversationStates' = switchMode(conversationStates, newMode)
            /\ currentMode' = newMode
            /\ conversationMode' = newMode
            /\ persistedMode' = newMode
       ELSE UNCHANGED <<conversationStates, currentMode, conversationMode, persistedMode>>
  /\ UNCHANGED <<persistedConversations, agents, agentEdits, held, notified, isLoading, autoTurnInProgress,
                 autoRoundLimit, autoRoundCount, now, sendVars, autoLoopVars,
                 rounds, reloads>>

\* --------------------------------------------------- handleSendMessage
UserMessage(rcpt, content, ts) == Message("user", rcpt, content, ts)

GroupReply(agent, i, content, ts) ==
  Message(agent, "everyone", content, ts + i)

PrivateReply(agent, content, ts) ==
  Message(agent, "user", content, ts)

\* store.addMessage (lines 70-73): appends to the store's current mode
addMessage(cs, cur, message) == addMessageToMode(cs, cur, message)

\* convertMessagesToApiFormat: the messages kept for the agent, each mapped to
\* its role (the content plays no part in the roles)
convertMessagesToApiFormat(messages, agentId) ==
  LET filtered == SelectSeq(messages, LAMBDA msg :
                    \/ msg.recipient = "everyone"
                    \/ msg.recipient = agentId
                    \/ msg.sender = agentId)
  IN [k \in DOMAIN filtered |->
        IF filtered[k].sender = agentId THEN "assistant" ELSE "user"]

\* getAgentResponse up to its await (lines 815-822): the argument of callAgent
\* round is the text of the prompt the call answers
Call(cs, agent, round) ==
  [agent |-> agent, input |-> getMessagesForAgent(cs, agent), round |-> round,
   state |-> "pending"]

\* lines 842-872: everything up to the first await
handleSendMessage ==
  /\ ~isLoading
  /\ rounds < MaxRounds
  /\ rounds' = rounds + 1
  /\ IF autoConversationActive
       THEN StopEffect
       ELSE UNCHANGED <<autoConversationActive, autoTurnTimeout, ghostVars>>
  /\ sendMode' = conversationMode
  /\ \E t \in DateNow :
     LET cs1 == addMessage(conversationStates, currentMode,
                           UserMessage(recipient, rounds + 1, t))
         n == Len(agents)
     IN /\ now' = t
        /\ conversationStates' = cs1
        /\ Saved(cs1, currentMode)
        /\ sendIdx' = 0
        /\ IF recipient = "everyone"
             THEN IF n = 0
                    THEN /\ sendCalls' = <<>>
                         /\ sendPc' = "idle"
                         /\ isLoading' = FALSE
                    ELSE /\ sendCalls' = [i \in 1..n |-> Call(cs1, agents[i], rounds + 1)]
                         /\ sendPc' = "awaitAll"
                         /\ isLoading' = TRUE
             ELSE IF \E i \in 1..n : agents[i] = recipient
                    THEN /\ sendCalls' = <<Call(cs1, recipient, rounds + 1)>>
                         /\ sendPc' = "awaitPrivate"
                         /\ isLoading' = TRUE
                    ELSE /\ sendCalls' = <<>>
                         /\ sendPc' = "idle"
                         /\ isLoading' = FALSE
  /\ UNCHANGED <<currentMode, agents, agentEdits, held, notified, uiVars, autoTurnInProgress, autoRoundLimit,
                 autoRoundCount, autoLoopVars, reloads>>

\* lines 874-893: one iteration of the commit loop, i counted from 0
CommitGroupReply(i) ==
  \E t \in DateNow :
  LET cs1 == addMessageToMode(conversationStates, sendMode,
                              GroupReply(sendCalls[i + 1].agent, i, rounds, t))
  IN /\ now' = t
     /\ conversationStates' = cs1
     /\ Saved(cs1, sendMode)
     /\ IF i < Len(sendCalls) - 1
          THEN /\ sendPc' = "commitDelay"
               /\ sendIdx' = i + 1
               /\ isLoading' = isLoading
          ELSE /\ sendPc' = "idle"
               /\ sendIdx' = i
               /\ isLoading' = FALSE

\* variant: the agents answer one after the other, each reply is committed as
\* soon as it arrives and the calls still open read the conversation after it
ResolveGroupCallSequential(i, outcome) ==
  /\ sendPc = "awaitAll"
  /\ i \in DOMAIN sendCalls
  /\ sendCalls[i].state = "pending"
  /\ outcome = "ok"
  /\ \E t \in DateNow :
       LET cs1 == addMessageToMode(conversationStates, sendMode,
                                   GroupReply(sendCalls[i].agent, i - 1, rounds, t))
       IN /\ now' = t
          /\ conversationStates' = cs1
          /\ Saved(cs1, sendMode)
          /\ sendCalls' = [j \in DOMAIN sendCalls |->
                IF j = i THEN [sendCalls[j] EXCEPT !.state = "resolved"]
                ELSE IF sendCalls[j].state = "pending"
                  THEN [sendCalls[j] EXCEPT
                          !.input = getMessagesForAgent(cs1, sendCalls[j].agent)]
                ELSE sendCalls[j]]
  /\ IF \E j \in DOMAIN sendCalls : j # i /\ sendCalls[j].state = "pending"
       THEN UNCHANGED <<sendPc, isLoading>>
       ELSE sendPc' = "idle" /\ isLoading' = FALSE
  /\ UNCHANGED <<currentMode, agents, agentEdits, held, notified, uiVars, autoFlagVars, autoRoundLimit,
                 autoRoundCount, sendMode, sendIdx, autoLoopVars, rounds, reloads,
                 ghostVars>>

\* variant: every reply is committed when its call settles, in the order of
\* arrival
ResolveGroupCallInArrivalOrder(i, outcome) ==
  /\ sendPc = "awaitAll"
  /\ i \in DOMAIN sendCalls
  /\ sendCalls[i].state = "pending"
  /\ outcome = "ok"
  /\ \E t \in DateNow :
       LET cs1 == addMessageToMode(conversationStates, sendMode,
                                   GroupReply(sendCalls[i].agent, i - 1, rounds, t))
       IN /\ now' = t
          /\ conversationStates' = cs1
          /\ Saved(cs1, sendMode)
          /\ sendCalls' = [sendCalls EXCEPT ![i].state = "resolved"]
  /\ IF \E j \in DOMAIN sendCalls : j # i /\ sendCalls[j].state = "pending"
       THEN UNCHANGED <<sendPc, isLoading>>
       ELSE sendPc' = "idle" /\ isLoading' = FALSE
  /\ UNCHANGED <<currentMode, agents, agentEdits, held, notified, uiVars, autoFlagVars, autoRoundLimit,
                 autoRoundCount, sendMode, sendIdx, autoLoopVars, rounds, reloads,
                 ghostVars>>

\* variant: a failed round is rolled back, the messages of the round are taken
\* out of the store again
ResolveGroupCallRollingBack(i, outcome) ==
  /\ sendPc = "awaitAll"
  /\ i \in DOMAIN sendCalls
  /\ sendCalls[i].state = "pending"
  /\ IF outcome = "fail"
       THEN LET cs1 == [k \in DOMAIN conversationStates |->
                          SelectSeq(conversationStates[k],
                                    LAMBDA m : m.content # rounds)]
            IN /\ sendCalls' = <<>>
               /\ sendPc' = "idle"
               /\ isLoading' = FALSE
               /\ conversationStates' = cs1
               /\ Saved(cs1, sendMode)
               /\ UNCHANGED <<sendIdx, now>>
       ELSE /\ sendCalls' = [sendCalls EXCEPT ![i].state = "resolved"]
            /\ IF \E j \in DOMAIN sendCalls : j # i /\ sendCalls[j].state = "pending"
                 THEN UNCHANGED <<conversationStates, diskVars, sendPc, sendIdx,
                                  isLoading, now>>
                 ELSE CommitGroupReply(0)
  /\ UNCHANGED <<currentMode, agents, agentEdits, held, notified, uiVars, autoFlagVars, autoRoundLimit,
                 autoRoundCount, sendMode, autoLoopVars, rounds, reloads, ghostVars>>

\* a call of the manual group round settles; Promise.all (line 871) rejects on
\* the first failure and resolves with the last success
ResolveGroupCall(i, outcome) ==
  /\ sendPc = "awaitAll"
  /\ i \in DOMAIN sendCalls
  /\ sendCalls[i].state = "pending"
  /\ IF outcome = "fail"
       THEN /\ sendCalls' = <<>>
            /\ sendPc' = "idle"
            /\ isLoading' = FALSE
            /\ UNCHANGED <<conversationStates, diskVars, sendIdx, now>>
       ELSE /\ sendCalls' = [sendCalls EXCEPT ![i].state = "resolved"]
            /\ IF \E j \in DOMAIN sendCalls : j # i /\ sendCalls[j].state = "pending"
                 THEN UNCHANGED <<conversationStates, diskVars, sendPc, sendIdx,
                                  isLoading, now>>
                 ELSE CommitGroupReply(0)
  /\ UNCHANGED <<currentMode, agents, agentEdits, held, notified, uiVars, autoFlagVars, autoRoundLimit,
                 autoRoundCount, sendMode, autoLoopVars, rounds, reloads, ghostVars>>

\* the 100 ms delay of line 891 is over
GroupDelayDone ==
  /\ sendPc = "commitDelay"
  /\ CommitGroupReply(sendIdx)
  /\ UNCHANGED <<currentMode, agents, agentEdits, held, notified, uiVars, autoFlagVars, autoRoundLimit,
                 autoRoundCount, sendMode, sendCalls, autoLoopVars, rounds,
                 reloads, ghostVars>>

\* variant: without the finally block, a failed private send leaves the busy
\* flag set
ResolvePrivateCallWithoutFinally(outcome) ==
  /\ sendPc = "awaitPrivate"
  /\ IF outcome = "ok"
       THEN \E t \in DateNow :
            LET cs1 == addMessageToMode(conversationStates, sendMode,
                                        PrivateReply(sendCalls[1].agent, rounds, t))
            IN /\ now' = t
               /\ conversationStates' = cs1
               /\ Saved(cs1, sendMode)
               /\ sendCalls' = [sendCalls EXCEPT ![1].state = "resolved"]
               /\ isLoading' = FALSE
       ELSE /\ sendCalls' = <<>>
            /\ UNCHANGED <<conversationStates, diskVars, now, isLoading>>
  /\ sendPc' = "idle"
  /\ UNCHANGED <<currentMode, agents, agentEdits, held, notified, uiVars, autoFlagVars, autoRoundLimit,
                 autoRoundCount, sendMode, sendIdx, autoLoopVars, rounds,
                 reloads, ghostVars>>

\* lines 898-919: the call of a private send settles
ResolvePrivateCall(outcome) ==
  /\ sendPc = "awaitPrivate"
  /\ IF outcome = "ok"
       THEN \E t \in DateNow :
            LET cs1 == addMessageToMode(conversationStates, sendMode,
                                        PrivateReply(sendCalls[1].agent, rounds, t))
            IN /\ now' = t
               /\ conversationStates' = cs1
               /\ Saved(cs1, sendMode)
               /\ sendCalls' = [sendCalls EXCEPT ![1].state = "resolved"]
       ELSE /\ sendCalls' = <<>>
            /\ UNCHANGED <<conversationStates, diskVars, now>>
  /\ sendPc' = "idle"
  /\ isLoading' = FALSE
  /\ UNCHANGED <<currentMode, agents, agentEdits, held, notified, uiVars, autoFlagVars, autoRoundLimit,
                 autoRoundCount, sendMode, sendIdx, autoLoopVars, rounds,
                 reloads, ghostVars>>

\* ------------------------------------------------------------ auto-chat
\* lines 766-773 and 688-695: force the group conversation
ForceGroup ==
  IF conversationMode # "group" \/ recipient # "everyone"
    THEN /\ conversationStates' = switchMode(conversationStates, "group")
         /\ currentMode' = "group"
         /\ conversationMode' = "group"
         /\ recipient' = "everyone"
         /\ persistedMode' = "group"
    ELSE UNCHANGED <<conversationStates, currentMode, conversationMode, recipient,
                     persistedMode>>

\* variant: starting auto-chat keeps the count of the rounds completed before
startAutoConversationWithoutReset ==
  /\ ~autoConversationActive
  /\ IF Len(agents) = 0
       THEN UNCHANGED <<storeVars, persistedMode, uiVars, autoConversationActive,
                        autoTurnTimeout, ghostVars, notified>>
       ELSE /\ autoConversationActive' = TRUE
            /\ notified' = 0
            /\ ForceGroup
            /\ autoTurnTimeout' = TRUE
            /\ commitRounds' = {}
            /\ limitStable' = TRUE
  /\ UNCHANGED <<persistedConversations, agents, agentEdits, held, isLoading,
                 autoTurnInProgress, autoRoundLimit, autoRoundCount, now, sendVars,
                 autoLoopVars, rounds, reloads>>

\* variant: auto-chat is started without looking at the agent list
startAutoConversationWithoutAgentCheck ==
  /\ ~autoConversationActive
  /\ autoConversationActive' = TRUE
  /\ autoRoundCount' = 0
  /\ notified' = 0
  /\ ForceGroup
  /\ autoTurnTimeout' = TRUE
  /\ commitRounds' = {}
  /\ limitStable' = TRUE
  /\ UNCHANGED <<persistedConversations, agents, agentEdits, held, isLoading,
                 autoTurnInProgress, autoRoundLimit, now, sendVars, autoLoopVars,
                 rounds, reloads>>

\* toggleAutoConversation while inactive: startAutoConversation (lines 751-776)
startAutoConversation ==
  /\ ~autoConversationActive
  /\ IF Len(agents) = 0
       THEN UNCHANGED <<storeVars, persistedMode, uiVars, autoConversationActive,
                        autoTurnTimeout, autoRoundCount, ghostVars, notified>>
       ELSE /\ autoConversationActive' = TRUE
            /\ autoRoundCount' = 0
            /\ notified' = 0
            /\ ForceGroup
            /\ autoTurnTimeout' = TRUE
            /\ commitRounds' = {}
            /\ limitStable' = TRUE
  /\ UNCHANGED <<persistedConversations, agents, agentEdits, held, isLoading, autoTurnInProgress,
                 autoRoundLimit, now, sendVars, autoLoopVars, rounds, reloads>>

\* toggleAutoConversation while active: stopAutoConversation (lines 660-666)
stopAutoConversation ==
  /\ autoConversationActive
  /\ StopEffect
  /\ UNCHANGED <<storeVars, diskVars, agents, agentEdits, held, notified, uiVars, isLoading, autoTurnInProgress,
                 autoRoundLimit, autoRoundCount, now, sendVars, autoLoopVars,
                 rounds, reloads>>

\* the text of the limit field: empty, not a number, or an integer
LimitInputs ==
  {[kind |-> "empty", n |-> 0], [kind |-> "nan", n |-> 0]}
    \cup {[kind |-> "int", n |-> k] : k \in -1..MaxLimit}

\* variant: a new limit is only stored; auto-chat is not stopped when the
\* rounds already completed reach it
handleAutoRoundLimitChangeWithoutStop(value) ==
  /\ IF value.kind = "empty" THEN autoRoundLimit' = NoLimit
     ELSE IF value.kind = "nan" THEN autoRoundLimit' = autoRoundLimit
     ELSE IF value.n <= 0 THEN autoRoundLimit' = NoLimit
     ELSE autoRoundLimit' = value.n
  /\ limitStable' = (limitStable /\ (autoConversationActive
                                       => autoRoundLimit' = autoRoundLimit))
  /\ UNCHANGED <<autoConversationActive, autoTurnTimeout, commitRounds, notified>>
  /\ UNCHANGED <<storeVars, diskVars, agents, agentEdits, held, uiVars, isLoading, autoTurnInProgress,
                 autoRoundCount, now, sendVars, autoLoopVars, rounds, reloads>>

\* lines 786-813
handleAutoRoundLimitChange(value) ==
  /\ IF value.kind = "empty" THEN autoRoundLimit' = NoLimit
     ELSE IF value.kind = "nan" THEN autoRoundLimit' = autoRoundLimit
     ELSE IF value.n <= 0 THEN autoRoundLimit' = NoLimit
     ELSE autoRoundLimit' = value.n
  /\ IF value.kind = "int" /\ value.n > 0
          /\ autoConversationActive /\ autoRoundCount >= value.n
       THEN StopEffect /\ notified' = notified + 1
       ELSE /\ limitStable' = (limitStable /\ (autoConversationActive
                                                  => autoRoundLimit' = autoRoundLimit))
            /\ UNCHANGED <<autoConversationActive, autoTurnTimeout, commitRounds,
                           notified>>
  /\ UNCHANGED <<storeVars, diskVars, agents, agentEdits, held, uiVars, isLoading, autoTurnInProgress,
                 autoRoundCount, now, sendVars, autoLoopVars, rounds, reloads>>

\* variant: every call of the round reads the conversation as it was when the
\* round began, without the replies the round has committed since
AutoIssueFromRoundStart(cs, currentAgents, i) ==
  LET atStart == [k \in DOMAIN cs |->
                    SelectSeq(cs[k], LAMBDA m :
                      ~(i > 0 /\ m.content = rounds /\ m.sender # "user"))]
  IN /\ autoIdx' = i
     /\ autoPc' = "await"
     /\ \E outcome \in Outcomes :
          autoCall' = [agent |-> currentAgents[i + 1],
                       input |-> getMessagesForAgent(atStart, currentAgents[i + 1]),
                       outcome |-> outcome]

\* lines 704-705: the call of agent number i (from 0) of the auto round; the
\* outcome is what callAgent is going to answer
AutoIssue(cs, currentAgents, i) ==
  /\ autoIdx' = i
  /\ autoPc' = "await"
  /\ \E outcome \in Outcomes :
       autoCall' = [agent |-> currentAgents[i + 1],
                    input |-> getMessagesForAgent(cs, currentAgents[i + 1]),
                    outcome |-> outcome]

\* variant: the catch block stops the automatic conversation
AutoRoundEndStopOnError(counted) ==
  LET count == IF counted THEN autoRoundCount + 1 ELSE autoRoundCount
      reached == counted /\ autoRoundLimit # NoLimit /\ count >= autoRoundLimit
      stopped == reached \/ ~counted
  IN /\ autoRoundCount' = count
     /\ notified' = IF reached /\ autoConversationActive THEN notified + 1 ELSE notified
     /\ autoConversationActive' = (autoConversationActive /\ ~stopped)
     /\ autoTurnTimeout' = IF stopped THEN FALSE
                           ELSE IF autoConversationActive THEN TRUE
                           ELSE autoTurnTimeout
     /\ autoTurnInProgress' = FALSE
     /\ isLoading' = FALSE
     /\ autoPc' = "idle"
     /\ autoAgents' = <<>>
     /\ autoIdx' = 0
     /\ autoCall' = NoCall
     /\ anyResponses' = FALSE
     /\ commitRounds' = {}
     /\ limitStable' = TRUE

\* lines 725-748: the end of an auto round; counted = the try block reached
\* line 725 with anyResponses set
AutoRoundEnd(counted) ==
  LET count == IF counted THEN autoRoundCount + 1 ELSE autoRoundCount
      reached == counted /\ autoRoundLimit # NoLimit /\ count >= autoRoundLimit
  IN /\ autoRoundCount' = count
     /\ notified' = IF reached /\ autoConversationActive THEN notified + 1 ELSE notified
     /\ autoConversationActive' = (autoConversationActive /\ ~reached)
     /\ autoTurnTimeout' = IF reached THEN FALSE
                           ELSE IF autoConversationActive THEN TRUE
                           ELSE autoTurnTimeout
     /\ autoTurnInProgress' = FALSE
     /\ isLoading' = FALSE
     /\ autoPc' = "idle"
     /\ autoAgents' = <<>>
     /\ autoIdx' = 0
     /\ autoCall' = NoCall
     /\ anyResponses' = FALSE
     /\ commitRounds' = IF reached \/ ~autoConversationActive THEN {}
                        ELSE IF counted THEN commitRounds \cup {rounds}
                        ELSE commitRounds
     /\ limitStable' = IF reached THEN TRUE ELSE limitStable

\* variant: the tick does not look at isLoading, so it does not wait for a
\* manual send that is still running
executeAutoTurnIgnoringLoading ==
  /\ autoTurnTimeout
  /\ IF ~autoConversationActive \/ autoTurnInProgress
       THEN /\ autoTurnTimeout' = FALSE
            /\ UNCHANGED <<storeVars, persistedMode, uiVars, isLoading,
                           autoConversationActive, autoTurnInProgress,
                           autoLoopVars, rounds, ghostVars>>
     ELSE IF Len(agents) = 0
       THEN /\ StopEffect
            /\ UNCHANGED <<storeVars, persistedMode, uiVars, isLoading,
                           autoTurnInProgress, autoLoopVars, rounds>>
     ELSE /\ rounds < MaxRounds
          /\ rounds' = rounds + 1
          /\ autoTurnTimeout' = FALSE
          /\ autoTurnInProgress' = TRUE
          /\ isLoading' = TRUE
          /\ ForceGroup
          /\ anyResponses' = FALSE
          /\ autoAgents' = agents
          /\ AutoIssue(conversationStates', agents, 0)
          /\ UNCHANGED <<autoConversationActive, ghostVars>>
  /\ UNCHANGED <<persistedConversations, agents, agentEdits, held, notified, autoRoundLimit, autoRoundCount,
                 now, sendVars, reloads>>

\* variant: a tick that finds a manual send busy gives up instead of scheduling
\* the next tick
executeAutoTurnWithoutRetry ==
  /\ autoTurnTimeout
  /\ IF ~autoConversationActive \/ autoTurnInProgress \/ isLoading
       THEN /\ autoTurnTimeout' = FALSE
            /\ UNCHANGED <<storeVars, persistedMode, uiVars, isLoading,
                           autoConversationActive, autoTurnInProgress,
                           autoLoopVars, rounds, ghostVars>>
     ELSE IF Len(agents) = 0
       THEN /\ StopEffect
            /\ UNCHANGED <<storeVars, persistedMode, uiVars, isLoading,
                           autoTurnInProgress, autoLoopVars, rounds>>
     ELSE /\ rounds < MaxRounds
          /\ rounds' = rounds + 1
          /\ autoTurnTimeout' = FALSE
          /\ autoTurnInProgress' = TRUE
          /\ isLoading' = TRUE
          /\ ForceGroup
          /\ anyResponses' = FALSE
          /\ autoAgents' = agents
          /\ AutoIssue(conversationStates', agents, 0)
          /\ UNCHANGED <<autoConversationActive, ghostVars>>
  /\ UNCHANGED <<persistedConversations, agents, agentEdits, held, notified,
                 autoRoundLimit, autoRoundCount, now, sendVars, reloads>>

\* the timer of scheduleAutoTurn fires: executeAutoTurn up to its first await
\* (lines 668-705); the model starts a round while fewer than maxRounds rounds
\* have been started
executeAutoTurnUpTo(maxRounds) ==
  /\ autoTurnTimeout
  /\ IF ~autoConversationActive \/ autoTurnInProgress
       THEN /\ autoTurnTimeout' = FALSE
            /\ UNCHANGED <<storeVars, persistedMode, uiVars, isLoading,
                           autoConversationActive, autoTurnInProgress,
                           autoLoopVars, rounds, ghostVars>>
     ELSE IF isLoading
       THEN /\ autoTurnTimeout' = TRUE
            /\ UNCHANGED <<storeVars, persistedMode, uiVars, isLoading,
                           autoConversationActive, autoTurnInProgress,
                           autoLoopVars, rounds, ghostVars>>
     ELSE IF Len(agents) = 0
       THEN /\ StopEffect
            /\ UNCHANGED <<storeVars, persistedMode, uiVars, isLoading,
                           autoTurnInProgress, autoLoopVars, rounds>>
     ELSE /\ rounds < maxRounds
          /\ rounds' = rounds + 1
          /\ autoTurnTimeout' = FALSE
          /\ autoTurnInProgress' = TRUE
          /\ isLoading' = TRUE
          /\ ForceGroup
          /\ anyResponses' = FALSE
          /\ autoAgents' = agents
          /\ AutoIssue(conversationStates', agents, 0)
          /\ UNCHANGED <<autoConversationActive, ghostVars>>
  /\ UNCHANGED <<persistedConversations, agents, agentEdits, held, notified, autoRoundLimit, autoRoundCount,
                 now, sendVars, reloads>>

\* executeAutoTurn in the program, whose rounds the bound MaxRounds limits
executeAutoTurn == executeAutoTurnUpTo(MaxRounds)

\* variant: the answer of a call that was in flight when the automatic
\* conversation was stopped is thrown away
ResolveAutoCallDiscardWhenStopped ==
  /\ autoPc = "await"
  /\ IF autoCall.outcome = "fail" \/ ~autoConversationActive
       THEN /\ AutoRoundEnd(FALSE)
            /\ UNCHANGED <<conversationStates, diskVars, now>>
       ELSE \E t \in DateNow :
            LET cs1 == addMessageToMode(conversationStates, "group",
                         GroupReply(autoCall.agent, autoIdx, rounds, t))
            IN /\ now' = t
               /\ conversationStates' = cs1
               /\ Saved(cs1, "group")
               /\ IF autoIdx < Len(autoAgents) - 1
                    THEN /\ autoPc' = "delay"
                         /\ anyResponses' = TRUE
                         /\ commitRounds' = commitRounds \cup {rounds}
                         /\ UNCHANGED <<autoFlagVars, isLoading, autoRoundCount,
                                        autoAgents, autoIdx, autoCall, limitStable,
                                        notified>>
                    ELSE AutoRoundEnd(TRUE)
  /\ UNCHANGED <<currentMode, agents, agentEdits, held, uiVars, autoRoundLimit, sendVars,
                 rounds, reloads>>

\* variant: the busy flags are released as soon as a reply is committed, before
\* the remaining agents of the round have been called
ResolveAutoCallReleasesEarly ==
  /\ autoPc = "await"
  /\ IF autoCall.outcome = "fail"
       THEN /\ AutoRoundEnd(FALSE)
            /\ UNCHANGED <<conversationStates, diskVars, now>>
       ELSE \E t \in DateNow :
            LET cs1 == addMessageToMode(conversationStates, "group",
                         GroupReply(autoCall.agent, autoIdx, rounds, t))
            IN /\ now' = t
               /\ conversationStates' = cs1
               /\ Saved(cs1, "group")
               /\ IF autoIdx < Len(autoAgents) - 1 /\ autoConversationActive
                    THEN /\ autoPc' = "delay"
                         /\ anyResponses' = TRUE
                         /\ commitRounds' = commitRounds \cup {rounds}
                         /\ autoTurnInProgress' = FALSE
                         /\ isLoading' = FALSE
                         /\ UNCHANGED <<autoConversationActive, autoTurnTimeout,
                                        autoRoundCount, autoAgents, autoIdx, autoCall,
                                        limitStable, notified>>
                    ELSE AutoRoundEnd(TRUE)
  /\ UNCHANGED <<currentMode, agents, agentEdits, held, uiVars, autoRoundLimit, sendVars,
                 rounds, reloads>>

\* variant: the reply of the auto round is appended to the store's current
\* conversation (addMessage in place of addMessageToMode('group'))
ResolveAutoCallToCurrentMode ==
  /\ autoPc = "await"
  /\ IF autoCall.outcome = "fail"
       THEN /\ AutoRoundEnd(FALSE)
            /\ UNCHANGED <<conversationStates, diskVars, now>>
       ELSE \E t \in DateNow :
            LET cs1 == addMessage(conversationStates, currentMode,
                         GroupReply(autoCall.agent, autoIdx, rounds, t))
            IN /\ now' = t
               /\ conversationStates' = cs1
               /\ Saved(cs1, "group")
               /\ IF autoIdx < Len(autoAgents) - 1 /\ autoConversationActive
                    THEN /\ autoPc' = "delay"
                         /\ anyResponses' = TRUE
                         /\ commitRounds' = commitRounds \cup {rounds}
                         /\ UNCHANGED <<autoFlagVars, isLoading, autoRoundCount,
                                        autoAgents, autoIdx, autoCall, limitStable,
                                        notified>>
                    ELSE AutoRoundEnd(TRUE)
  /\ UNCHANGED <<currentMode, agents, agentEdits, held, uiVars, autoRoundLimit, sendVars,
                 rounds, reloads>>

\* lines 705-723 and 739-748: the call in flight of the auto round settles
ResolveAutoCall ==
  /\ autoPc = "await"
  /\ IF autoCall.outcome = "fail"
       THEN /\ AutoRoundEnd(FALSE)
            /\ UNCHANGED <<conversationStates, diskVars, now>>
       ELSE \E t \in DateNow :
            LET cs1 == addMessageToMode(conversationStates, "group",
                         GroupReply(autoCall.agent, autoIdx, rounds, t))
            IN /\ now' = t
               /\ conversationStates' = cs1
               /\ Saved(cs1, "group")
               /\ IF autoIdx < Len(autoAgents) - 1 /\ autoConversationActive
                    THEN /\ autoPc' = "delay"
                         /\ anyResponses' = TRUE
                         /\ commitRounds' = commitRounds \cup {rounds}
                         /\ UNCHANGED <<autoFlagVars, isLoading, autoRoundCount,
                                        autoAgents, autoIdx, autoCall, limitStable,
                                        notified>>
                    ELSE AutoRoundEnd(TRUE)
  /\ UNCHANGED <<currentMode, agents, agentEdits, held, uiVars, autoRoundLimit, sendVars,
                 rounds, reloads>>

\* the 500 ms delay of line 721 is over: next iteration of the loop
AutoDelayDone ==
  /\ autoPc = "delay"
  /\ IF ~autoConversationActive
       THEN AutoRoundEnd(anyResponses)
       ELSE /\ AutoIssue(conversationStates, autoAgents, autoIdx + 1)
            /\ UNCHANGED <<autoFlagVars, isLoading, autoRoundCount, autoAgents,
                           anyResponses, ghostVars, notified>>
  /\ UNCHANGED <<storeVars, diskVars, agents, agentEdits, held, uiVars, autoRoundLimit, now, sendVars,
                 rounds, reloads>>

\* --------------------------------------------------------------- reload
\* what may have become of the stored blob by the time the page reads it:
\* nothing, a text JSON.parse rejects, or the text "null", which JSON.parse
\* accepts and Object.entries rejects
Damages == {"no", "invalid", "null"}

\* the page is loaded again: fresh component state (lines 519-540), then the
\* mount effect (lines 542-563) reads the two persisted keys.  JSON.stringify
\* followed by JSON.parse gives back the exported buckets as they were: the
\* messages hold strings and integers only.
Reload ==
  /\ reloads < MaxReloads
  /\ reloads' = reloads + 1
  /\ \E damage \in Damages :
     LET stored == IF damage = "no" THEN persistedConversations
                   ELSE [has |-> TRUE, states |-> <<>>, malformed |-> damage]
         mode == IF persistedMode = NoMode THEN "group" ELSE persistedMode
     IN /\ persistedConversations' = stored
        /\ IF ~stored.has \/ stored.malformed = "invalid"
             THEN \* nothing stored, or JSON.parse throws (line 554)
                  /\ conversationStates' = EmptyStates
                  /\ currentMode' = "group"
                  /\ conversationMode' = "group"
                  /\ recipient' = "everyone"
           ELSE IF stored.malformed = "null"
             THEN \* importStates throws at Object.entries (line 189), after
                  \* the Map was cleared (line 188)
                  /\ conversationStates' = [k \in {} |-> <<>>]
                  /\ currentMode' = "group"
                  /\ conversationMode' = "group"
                  /\ recipient' = "everyone"
           ELSE /\ conversationStates' = importStates(EmptyStates, stored.states)
                /\ currentMode' = importStatesMode(stored.states, mode)
                /\ conversationMode' = mode
                /\ recipient' = IF mode = "group" THEN "everyone" ELSE mode
  /\ isLoading' = FALSE
  /\ autoConversationActive' = FALSE
  /\ autoTurnTimeout' = FALSE
  /\ autoTurnInProgress' = FALSE
  /\ autoRoundLimit' = NoLimit
  /\ autoRoundCount' = 0
  /\ sendPc' = "idle"
  /\ sendMode' = "group"
  /\ sendCalls' = <<>>
  /\ sendIdx' = 0
  /\ autoPc' = "idle"
  /\ autoAgents' = <<>>
  /\ autoIdx' = 0
  /\ autoCall' = NoCall
  /\ anyResponses' = FALSE
  /\ commitRounds' = {}
  /\ limitStable' = TRUE
  /\ notified' = 0
  /\ UNCHANGED <<persistedMode, agents, agentEdits, held, now, rounds>>

\* the settings dialog saves an edited agent list (lines 1094-1101); the effect
\* of lines 565-567 copies it to agentsRef before the next task runs
onAgentsChange(newAgents) ==
  /\ agentEdits < MaxAgentEdits
  /\ agentEdits' = agentEdits + 1
  /\ newAgents # agents
  /\ agents' = newAgents
  /\ UNCHANGED <<storeVars, diskVars, held, notified, uiVars, isLoading, autoFlagVars,
                 autoRoundLimit, autoRoundCount, now, sendVars, autoLoopVars,
                 rounds, reloads, ghostVars>>

Next ==
  \/ \E r \in Recipients : handleRecipientChange(r)
  \/ handleSendMessage
  \/ \E i \in 1..Cardinality(AgentIds), o \in Outcomes : ResolveGroupCall(i, o)
  \/ GroupDelayDone
  \/ \E o \in Outcomes : ResolvePrivateCall(o)
  \/ startAutoConversation
  \/ stopAutoConversation
  \/ \E v \in LimitInputs : handleAutoRoundLimitChange(v)
  \/ executeAutoTurn
  \/ ResolveAutoCall
  \/ AutoDelayDone
  \/ Reload
  \/ \E newAgents \in AgentLists : onAgentsChange(newAgents)

Spec == Init /\ [][Next]_vars

\* a round in flight goes on: a call of an agent settles (callAgent resolves
\* or rejects) or a timer of the round fires (setTimeout, lines 721 and 891)
RoundContinues ==
  \/ \E i \in 1..Cardinality(AgentIds), o \in Outcomes : ResolveGroupCall(i, o)
  \/ GroupDelayDone
  \/ \E o \in Outcomes : ResolvePrivateCall(o)
  \/ ResolveAutoCall
  \/ AutoDelayDone

\* the settings dialog saves an empty agent list before the first round
RemoveAgentsBeforeFirstRound == rounds = 0 /\ onAgentsChange(<<>>)

\* the steps of the program in a session whose agent list is emptied, if at
\* all, before the first round
LiveNext ==
  \/ \E r \in Recipients : handleRecipientChange(r)
  \/ handleSendMessage
  \/ \E i \in 1..Cardinality(AgentIds), o \in Outcomes : ResolveGroupCall(i, o)
  \/ GroupDelayDone
  \/ \E o \in Outcomes : ResolvePrivateCall(o)
  \/ startAutoConversation
  \/ stopAutoConversation
  \/ \E v \in LimitInputs : handleAutoRoundLimitChange(v)
  \/ executeAutoTurn
  \/ ResolveAutoCall
  \/ AutoDelayDone
  \/ Reload
  \/ RemoveAgentsBeforeFirstRound

\* that session when every call settles and every timer fires: a round in
\* flight is not left waiting for ever, and a tick that scheduleAutoTurn has
\* set (lines 652-658) runs executeAutoTurn
LiveSpec ==
  /\ Init /\ [][LiveNext]_vars
  /\ WF_vars(RoundContinues)
  /\ WF_vars(executeAutoTurn)

\* ------------------------------------------- auto-chat by itself
\* auto-chat left to itself for up to MaxAutoRounds rounds: the user only
\* starts and stops it
AutoNext ==
  \/ startAutoConversation
  \/ stopAutoConversation
  \/ executeAutoTurnUpTo(MaxAutoRounds)
  \/ ResolveAutoCall
  \/ AutoDelayDone

AutoSpec == Init /\ [][AutoNext]_vars

\* ------------------------------------------------- the store by itself
\* The store driven directly by a caller that keeps the array its last read
\* returned.  A bucket is a JavaScript array held in the Map: held.live says
\* that the array the caller holds is the very array object the Map holds for
\* bucket held.mode; held.taken is what that array held when it was returned
\* and held.value is what it holds now.
programVars == <<persistedConversations, persistedMode, agents, recipient,
                 conversationMode, isLoading, autoConversationActive,
                 autoTurnTimeout, autoTurnInProgress, autoRoundLimit,
                 autoRoundCount, now, sendPc, sendMode, sendCalls, sendIdx,
                 autoPc, autoAgents, autoIdx, autoCall, anyResponses,
                 commitRounds, limitStable, notified, agentEdits>>

\* getMessages / getCurrentMessages (lines 56-65): this.conversationStates
\* .get(mode) || [] is the Map's own array, or a fresh one for a missing
\* bucket; exportStates (lines 171-173) hands out the Map's own arrays
Returned(from, cs, mode) ==
  [from |-> from, mode |-> mode, live |-> mode \in DOMAIN cs,
   taken |-> getMessages(cs, mode), value |-> getMessages(cs, mode)]

\* messages.push(message) (lines 72, 91) on the bucket of mode, seen through
\* the array the caller holds
SeenAfterPush(h, cs1, mode) ==
  IF h.live /\ h.mode = mode THEN [h EXCEPT !.value = cs1[mode]] ELSE h

\* the Map entry of mode is replaced by another array (lines 141-142, 156)
Detached(h, modes) ==
  IF h.live /\ h.mode \in modes THEN [h EXCEPT !.live = FALSE] ELSE h

\* the text of the next message is its number; the store accepts any timestamp
StoreMessages == {Message("user", "everyone", rounds + 1, t) : t \in 0..MaxClock}

StoreAddMessage ==
  /\ rounds < MaxRounds
  /\ rounds' = rounds + 1
  /\ \E m \in StoreMessages :
       LET cs1 == addMessage(conversationStates, currentMode, m) IN
       /\ conversationStates' = cs1
       /\ held' = SeenAfterPush(held, cs1, currentMode)
  /\ UNCHANGED <<currentMode, reloads, programVars>>

StoreAddMessageToMode(mode) ==
  /\ rounds < MaxRounds
  /\ rounds' = rounds + 1
  /\ \E m \in StoreMessages :
       LET cs1 == addMessageToMode(conversationStates, mode, m) IN
       /\ conversationStates' = cs1
       /\ held' = SeenAfterPush(held, cs1, mode)
  /\ UNCHANGED <<currentMode, reloads, programVars>>

StoreSwitchMode(mode) ==
  /\ conversationStates' = switchMode(conversationStates, mode)
  /\ currentMode' = mode
  /\ UNCHANGED <<held, rounds, reloads, programVars>>

\* variant: reading a missing bucket creates it
StoreGetMessagesMaterializing(mode) ==
  /\ held' = Returned("getMessages", conversationStates, mode)
  /\ conversationStates' = switchMode(conversationStates, mode)
  /\ UNCHANGED <<currentMode, rounds, reloads, programVars>>

StoreGetMessages(mode) ==
  /\ held' = Returned("getMessages", conversationStates, mode)
  /\ UNCHANGED <<storeVars, rounds, reloads, programVars>>

StoreGetCurrentMessages ==
  /\ held' = Returned("getCurrentMessages", conversationStates, currentMode)
  /\ UNCHANGED <<storeVars, rounds, reloads, programVars>>

\* getMessagesForAgent (lines 110-135) returns an array of its own
StoreGetMessagesForAgent(agentId) ==
  /\ held' = [from |-> "getMessagesForAgent", mode |-> agentId, live |-> FALSE,
              taken |-> getMessagesForAgent(conversationStates, agentId),
              value |-> getMessagesForAgent(conversationStates, agentId)]
  /\ UNCHANGED <<storeVars, rounds, reloads, programVars>>

\* getCurrentMode (lines 49-51) and getAvailableModes (lines 209-211) hand
\* out no message array
StoreGetCurrentMode ==
  /\ held' = [NoHeld EXCEPT !.from = "getCurrentMode", !.mode = currentMode]
  /\ UNCHANGED <<storeVars, rounds, reloads, programVars>>

StoreGetAvailableModes ==
  /\ held' = [NoHeld EXCEPT !.from = "getAvailableModes"]
  /\ UNCHANGED <<storeVars, rounds, reloads, programVars>>

\* the caller keeps the list of one bucket of the exported object
StoreExportStates(mode) ==
  /\ mode \in DOMAIN conversationStates
  /\ held' = Returned("exportStates", conversationStates, mode)
  /\ UNCHANGED <<storeVars, rounds, reloads, programVars>>

StoreClearConversation(mode) ==
  /\ conversationStates' = [k \in DOMAIN conversationStates \cup {mode} |->
                              IF k = mode THEN <<>> ELSE conversationStates[k]]
  /\ held' = Detached(held, {mode})
  /\ UNCHANGED <<currentMode, rounds, reloads, programVars>>

\* variant: the current mode is kept
StoreClearAllKeepingMode ==
  /\ conversationStates' = EmptyStates
  /\ held' = Detached(held, Modes)
  /\ UNCHANGED <<currentMode, rounds, reloads, programVars>>

StoreClearAll ==
  /\ conversationStates' = EmptyStates
  /\ currentMode' = "group"
  /\ held' = Detached(held, Modes)
  /\ UNCHANGED <<rounds, reloads, programVars>>

\* the blobs a caller may import: any set of buckets, the one of agent A
\* holding a message written earlier
ImportedMessage == Message("user", "everyone", 0, 0)

Blobs ==
  {[k \in D |-> IF k = "A" THEN <<ImportedMessage>> ELSE <<>>] : D \in SUBSET Modes}

\* reloads counts the imports
StoreImportStates(states, mode) ==
  /\ reloads < MaxReloads
  /\ reloads' = reloads + 1
  /\ conversationStates' = importStates(conversationStates, states)
  /\ currentMode' = importStatesMode(states, mode)
  /\ held' = Detached(held, Modes)
  /\ UNCHANGED <<rounds, programVars>>

\* the caller pushes a message onto the array it was given
MutateReturned ==
  /\ held.from # "none"
  /\ rounds < MaxRounds
  /\ rounds' = rounds + 1
  /\ \E m \in StoreMessages :
       /\ held' = [held EXCEPT !.value = Append(@, m)]
       /\ conversationStates' =
            IF held.live THEN addMessageToMode(conversationStates, held.mode, m)
            ELSE conversationStates
  /\ UNCHANGED <<currentMode, reloads, programVars>>

StoreNext ==
  \/ StoreAddMessage
  \/ \E mode \in Modes : StoreAddMessageToMode(mode)
  \/ \E mode \in Modes : StoreSwitchMode(mode)
  \/ \E mode \in Modes : StoreGetMessages(mode)
  \/ StoreGetCurrentMessages
  \/ \E agentId \in AgentIds : StoreGetMessagesForAgent(agentId)
  \/ StoreGetCurrentMode
  \/ StoreGetAvailableModes
  \/ \E mode \in Modes : StoreExportStates(mode)
  \/ \E mode \in Modes : StoreClearConversation(mode)
  \/ StoreClearAll
  \/ \E states \in Blobs, mode \in Modes \cup {NoMode} : StoreImportStates(states, mode)
  \/ MutateReturned

StoreSpec == Init /\ [][StoreNext]_vars

\* ------------------------------------------------------------ properties
Range(s) == {s[k] : k \in DOMAIN s}

Count(m, s) == Cardinality({k \in DOMAIN s : s[k] = m})

group == getMessages(conversationStates, "group")

\* m is a reply of some agent to the prompt of the given round
IsReplyOfRound(m, round) == m.content = round /\ m.sender # "user"

\* the step is an accepted handleSendMessage
ManualSendStep == rounds' = rounds + 1 /\ ~autoTurnInProgress'

\* C1: in a manual group send, the input of every agent's call is the
\* messagesForAgent snapshot taken before any reply of the round is appended:
\* it holds no reply to the prompt of its own round, whatever the order in
\* which the calls settle.
C1_ManualRoundIsolation ==
  \A i \in DOMAIN sendCalls :
    /\ \A m \in Range(sendCalls[i].input) : ~IsReplyOfRound(m, sendCalls[i].round)
    /\ sendPc = "awaitAll" =>
         sendCalls[i].input = getMessagesForAgent(conversationStates, sendCalls[i].agent)

\* C1 witness: both agents' replies to the prompt are in the group bucket and
\* the inputs the two calls were given are on record.
C1_Witness ==
  /\ Len(sendCalls) = 2
  /\ sendPc = "idle"
  /\ \A i \in DOMAIN sendCalls :
       /\ sendCalls[i].input # <<>>
       /\ \E m \in Range(group) :
            m.sender = sendCalls[i].agent /\ IsReplyOfRound(m, sendCalls[i].round)

\* C2 (as claimed): when a manual group round ends, every agent whose call
\* succeeded has its reply in the group bucket, also when another agent's
\* call failed.
C2_ManualFailureIsolation ==
  [][(sendPc = "awaitAll" /\ sendPc' = "idle" /\ reloads' = reloads) =>
       \A j \in DOMAIN sendCalls :
         sendCalls[j].state = "resolved" =>
           \E m \in Range(getMessages(conversationStates', "group")) :
             m.sender = sendCalls[j].agent /\ IsReplyOfRound(m, sendCalls[j].round)]_vars

\* m is a whisper between the user and agent a
IsWhisper(m, a) ==
  \/ m.sender = "user" /\ m.recipient = a
  \/ m.sender = a /\ m.recipient = "user"

\* C3 (as claimed): a message privately addressed to agent a never appears
\* in messagesForAgent(b) for another agent b.
C3_WhisperPrivacy ==
  \A a \in AgentIds, b \in AgentIds :
    a # b => \A m \in Range(getMessagesForAgent(conversationStates, b)) : ~IsWhisper(m, a)

\* C4 (as claimed): every accepted user send appends the user's message to
\* the bucket of its addressing choice: group for everyone, X for agent X.
C4_DispatchRouting ==
  [][ManualSendStep =>
       LET bucket == IF recipient = "everyone" THEN "group" ELSE recipient IN
       getMessages(conversationStates', bucket)
         = Append(getMessages(conversationStates, bucket),
                  UserMessage(recipient, rounds', now'))]_vars

\* C5: messagesForAgent(a) is the multiset union of bucket a and bucket group,
\* in non-decreasing timestamp order.
C5_MergedView ==
  \A a \in AgentIds :
    LET private == getMessages(conversationStates, a)
        merged == getMessagesForAgent(conversationStates, a)
    IN /\ Len(merged) = Len(private) + Len(group)
       /\ \A m \in Range(merged) \cup Range(private) \cup Range(group) :
            Count(m, merged) = Count(m, private) + Count(m, group)
       /\ \A k \in 1..(Len(merged) - 1) : merged[k].timestamp <= merged[k + 1].timestamp

\* C5 witness: both buckets hold messages and the merge is not the plain
\* concatenation of the two buckets.
C5_Witness ==
  \E a \in AgentIds :
    /\ getMessages(conversationStates, a) # <<>>
    /\ group # <<>>
    /\ getMessagesForAgent(conversationStates, a)
         # getMessages(conversationStates, a) \o group

\* the call in flight of the auto round settles in this step
AutoCallSettles ==
  /\ autoPc = "await"
  /\ reloads' = reloads
  /\ <<autoPc, autoIdx, autoCall>>' # <<autoPc, autoIdx, autoCall>>

\* a call of the auto round is issued in this step
AutoCallIssued ==
  /\ autoPc' = "await"
  /\ reloads' = reloads
  /\ autoPc # "await" \/ autoIdx' # autoIdx

\* agent number j (from 1) of the auto round has a reply of this round in s
HasReplyOfAgent(s, j) ==
  \E m \in Range(s) : m.sender = autoAgents[j] /\ IsReplyOfRound(m, rounds)

C7_AutoFailureContinuesRound ==
  [][(/\ AutoCallSettles
      /\ autoCall.outcome = "fail"
      /\ autoConversationActive
      /\ autoIdx < Len(autoAgents) - 1)
       => (/\ getMessages(conversationStates', "group") = group
           /\ autoPc' # "idle")]_vars

\* C8: a failed call ends its auto round without stopping the loop: auto-chat
\* stays as active as it was and, when active, the next tick is scheduled
\* with nothing left that would make that tick skip the round.
C8_AutoFailureKeepsLoop ==
  [][(AutoCallSettles /\ autoCall.outcome = "fail" /\ autoPc' = "idle")
       => (/\ autoConversationActive' = autoConversationActive
           /\ autoConversationActive
                => autoTurnTimeout' /\ ~autoTurnInProgress' /\ ~isLoading')]_vars

\* C8 witness: the last round was an auto round whose first call failed (it
\* left no message), and auto-chat is active with a tick scheduled.
C8_Witness ==
  /\ reloads = 0
  /\ rounds > 0
  /\ autoPc = "idle"
  /\ \A k \in DOMAIN conversationStates :
       \A m \in Range(conversationStates[k]) : m.content # rounds
  /\ autoConversationActive
  /\ autoTurnTimeout

\* C9 (as claimed): when the loop stops by itself with the limit N that was
\* set at start, exactly N auto rounds have committed replies since start.
C9_ExactlyLimitRounds ==
  [][(/\ autoPc # "idle" /\ autoPc' = "idle"
      /\ reloads' = reloads
      /\ autoConversationActive /\ ~autoConversationActive'
      /\ limitStable)
       => Cardinality(commitRounds \cup {rounds}) = autoRoundLimit]_vars

\* C10: once auto-chat is stopped, a call in flight still finishes and its
\* reply is appended to the group bucket, after which the round ends; no call
\* is issued and no round is begun while auto-chat is not active.
C10_CooperativeCancellation ==
  [][/\ (AutoCallSettles /\ autoCall.outcome = "ok" /\ ~autoConversationActive)
          => /\ getMessages(conversationStates', "group")
                  = Append(group, GroupReply(autoCall.agent, autoIdx, rounds, now'))
             /\ autoPc' = "idle"
             /\ ~autoTurnTimeout'
     /\ AutoCallIssued => autoConversationActive
     /\ (~autoTurnInProgress /\ autoTurnInProgress') => autoConversationActive]_vars

\* C10 witness: auto-chat was stopped while a call that is going to succeed
\* is in flight and further agents of the round are still to come.
C10_Witness ==
  /\ autoPc = "await"
  /\ ~autoConversationActive
  /\ autoCall.outcome = "ok"
  /\ autoIdx < Len(autoAgents) - 1

\* C11: a manual send issued while auto-chat is active stops auto-chat (flag
\* cleared, pending tick cancelled) in the same task, and a manual send round
\* and an auto-chat round are never in flight at the same time.
C11_ManualAutoExclusion ==
  [][/\ (ManualSendStep /\ autoConversationActive)
          => (~autoConversationActive' /\ ~autoTurnTimeout')
     /\ ~(sendPc' # "idle" /\ autoPc' # "idle")]_vars

\* C11 witness: a manual group round is awaiting its replies while auto-chat
\* has been switched on again and its tick is pending.
C11_Witness ==
  /\ sendPc = "awaitAll"
  /\ autoConversationActive
  /\ autoTurnTimeout

\* C12: a tick that fires while the calls or commits of an auto round are
\* still pending starts no round and appends nothing, and the in-progress flag
\* is set exactly while a round is under way.
C12_NoOverlappingAutoRounds ==
  [][/\ (executeAutoTurn /\ autoPc # "idle")
          => UNCHANGED <<conversationStates, autoLoopVars, rounds, autoTurnInProgress>>
     /\ autoTurnInProgress' <=> (autoPc' # "idle")]_vars

\* C12 witness: a tick is pending while a round's call is in flight (auto-chat
\* was stopped and started again during the round).
C12_Witness ==
  /\ autoPc # "idle"
  /\ autoTurnTimeout
  /\ autoConversationActive

\* m is the user's message that opened the given round
IsPromptOfRound(m, round) == m.sender = "user" /\ m.content = round

\* the round was opened by a user message (it is a manual round)
IsManualRound(round) ==
  \E k \in DOMAIN conversationStates :
    \E m \in Range(conversationStates[k]) : IsPromptOfRound(m, round)

\* C13 (as claimed): the user's message is in the store before any agent is
\* invoked for it (every call's input holds it), and in the bucket that
\* receives a reply of a manual round the user's message of that round comes
\* before the reply.
C13_UserMessageFirst ==
  /\ \A i \in DOMAIN sendCalls :
       \E m \in Range(sendCalls[i].input) : IsPromptOfRound(m, sendCalls[i].round)
  /\ \A k \in DOMAIN conversationStates :
       \A p \in DOMAIN conversationStates[k] :
         LET reply == conversationStates[k][p] IN
         (reply.sender # "user" /\ IsManualRound(reply.content))
           => \E q \in 1..(p - 1) :
                IsPromptOfRound(conversationStates[k][q], reply.content)

\* the call of a private send resolves with a reply in this step
PrivateReplyStep ==
  /\ sendPc = "awaitPrivate"
  /\ sendPc' = "idle"
  /\ reloads' = reloads
  /\ sendCalls' # <<>>

\* C14 (as claimed): a private send to X invokes X and no other agent, and X's
\* reply, addressed to the user, is appended to bucket X, the bucket that
\* holds the user's message of the round, whatever the user selects while the
\* call is in flight.
C14_PrivateRoundRouting ==
  [][/\ (ManualSendStep /\ recipient # "everyone")
          => (/\ \A i \in DOMAIN sendCalls' : sendCalls'[i].agent = recipient
              /\ Len(sendCalls') <= 1
              /\ autoPc' = "idle")
     /\ PrivateReplyStep
          => LET X == sendCalls[1].agent IN
             /\ getMessages(conversationStates', X)
                  = Append(getMessages(conversationStates, X),
                           PrivateReply(X, sendCalls[1].round, now'))
             /\ \E m \in Range(getMessages(conversationStates, X)) :
                  IsPromptOfRound(m, sendCalls[1].round)]_vars

\* position of an agent in the configuration; the settings dialog may have
\* emptied the list since the round ran, the position is taken from the full
\* list
AgentIndex(a) ==
  LET full == CHOOSE l \in AgentLists : \A x \in AgentIds : \E i \in DOMAIN l : l[i] = x
  IN CHOOSE i \in DOMAIN full : full[i] = a

\* in every bucket the replies of one round stand in configuration order
RepliesInConfigurationOrder(cs) ==
  \A k \in DOMAIN cs :
    \A p \in DOMAIN cs[k], q \in DOMAIN cs[k] :
      (/\ p < q
       /\ cs[k][p].sender # "user" /\ cs[k][q].sender # "user"
       /\ cs[k][p].content = cs[k][q].content)
        => AgentIndex(cs[k][p].sender) < AgentIndex(cs[k][q].sender)

\* the manual group round commits its last reply in this step
GroupRoundCompletes ==
  /\ sendPc \in {"awaitAll", "commitDelay"}
  /\ sendPc' = "idle"
  /\ sendCalls' # <<>>
  /\ reloads' = reloads

\* C15: the order in which the calls of a manual group round settle leaves no
\* trace in the store: nothing is committed while a call is still open, the
\* replies of a round stand in agent configuration order, and a completed
\* round has appended one reply per agent, in that order, to its bucket.
C15_DeterministicCommitOrder ==
  [][/\ (sendPc = "awaitAll" /\ sendPc' = "awaitAll")
          => \A k \in Modes : getMessages(conversationStates', k)
                                = getMessages(conversationStates, k)
     /\ RepliesInConfigurationOrder(conversationStates')
     /\ GroupRoundCompletes
          => LET b == getMessages(conversationStates', sendMode)
                 n == Len(sendCalls')
             IN /\ Len(b) >= n
                /\ \A i \in 1..n :
                     /\ b[Len(b) - n + i].sender = sendCalls'[i].agent
                     /\ AgentIndex(sendCalls'[i].agent) = i
                     /\ IsReplyOfRound(b[Len(b) - n + i], rounds)]_vars

\* C15 witness: the second agent's call has settled while the first agent's
\* call is still open.
C15_Witness ==
  /\ sendPc = "awaitAll"
  /\ Len(sendCalls) = 2
  /\ sendCalls[1].state = "pending"
  /\ sendCalls[2].state = "resolved"

\* C16 (as claimed): every reply of a group round has a timestamp strictly greater
\* than the timestamp of the user message that opened its round and than the
\* timestamp of every reply of that round committed before it.
C16_StrictlyIncreasingKeys ==
  \A k \in DOMAIN conversationStates :
    \A q \in DOMAIN conversationStates[k] :
      LET reply == conversationStates[k][q] IN
      (reply.sender # "user" /\ reply.recipient = "everyone") =>
        /\ \A k2 \in DOMAIN conversationStates :
             \A m \in Range(conversationStates[k2]) :
               IsPromptOfRound(m, reply.content) => m.timestamp < reply.timestamp
        /\ \A p \in 1..(q - 1) :
             IsReplyOfRound(conversationStates[k][p], reply.content)
               => conversationStates[k][p].timestamp < reply.timestamp

\* m1 was appended to the store before m2: the text of a message is the number
\* of its round, rounds do not overlap, and within a round the user's message
\* is appended first and the replies follow in configuration order
AppendedBefore(m1, m2) ==
  \/ m1.content < m2.content
  \/ /\ m1.content = m2.content
     /\ \/ m1.sender = "user" /\ m2.sender # "user"
        \/ /\ m1.sender # "user" /\ m2.sender # "user"
           /\ AgentIndex(m1.sender) < AgentIndex(m2.sender)

\* C17 (as claimed): in messagesForAgent(a), two messages with equal
\* timestamps stand in the order in which they were appended to the store,
\* whichever bucket each is in.
C17_TieBreakByInsertion ==
  \A a \in AgentIds :
    LET merged == getMessagesForAgent(conversationStates, a) IN
    \A p \in DOMAIN merged, q \in DOMAIN merged :
      (p < q /\ merged[p].timestamp = merged[q].timestamp)
        => AppendedBefore(merged[p], merged[q])

\* the messages a caller may append next
NextMessages ==
  {Message("user", "everyone", rounds + 1, t) : t \in 0..MaxClock}

\* C18: appending m to bucket mode makes messagesIn(mode) the old sequence
\* followed by m and leaves messagesIn(b) of every other bucket b as it was,
\* for addMessageToMode and for addMessage on the current mode; switching the
\* mode changes no bucket's messages.
C18_BucketInsertionOrder ==
  \A mode \in Modes, b \in Modes :
    /\ getMessages(switchMode(conversationStates, mode), b)
         = getMessages(conversationStates, b)
    /\ \A m \in NextMessages :
         /\ getMessages(addMessageToMode(conversationStates, mode, m), b)
              = IF b = mode THEN Append(getMessages(conversationStates, b), m)
                ELSE getMessages(conversationStates, b)
         /\ getMessages(addMessage(conversationStates, currentMode, m), b)
              = IF b = currentMode THEN Append(getMessages(conversationStates, b), m)
                ELSE getMessages(conversationStates, b)

\* C18 witness: the group bucket and a private bucket both hold messages, and
\* the newest message of the store is in the private bucket.
C18_Witness ==
  \E a \in AgentIds :
    /\ group # <<>>
    /\ getMessages(conversationStates, a) # <<>>
    /\ \E m \in Range(getMessages(conversationStates, a)) : m.content = rounds
    /\ \A m \in Range(group) : m.content < rounds

\* s is a prefix of t
IsPrefix(s, t) == Len(s) <= Len(t) /\ SubSeq(t, 1, Len(s)) = s

\* C20: in every step that is not a page load (importStates; the program never
\* calls clearAll or clearConversation), each bucket's previous message
\* sequence is a prefix of its new one.
C20_AppendOnly ==
  [][reloads' = reloads
       => \A k \in Modes : IsPrefix(getMessages(conversationStates, k),
                                    getMessages(conversationStates', k))]_vars

\* C20 witness: after a group round with replies the user has switched to a
\* private conversation and back, and a further round has been started.
C20_Witness ==
  /\ reloads = 0
  /\ Len(group) >= 3
  /\ DOMAIN conversationStates # {"group"}
  /\ conversationMode = "group"
  /\ rounds = 2

\* the store appends a message in this step
StoreAppendStep == StoreAddMessage \/ \E mode \in Modes : StoreAddMessageToMode(mode)

\* C19 (as claimed): a sequence returned by messagesIn, currentMessages or
\* exportState is a copy: an append to the store leaves the value the caller
\* holds as it was, and a change the caller makes to it leaves every bucket of
\* the store as it was.
C19_SnapshotReads ==
  [][/\ StoreAppendStep => held'.value = held.value
     /\ MutateReturned
          => \A k \in Modes : getMessages(conversationStates', k)
                                = getMessages(conversationStates, k)]_vars

\* C21 (as claimed): in every store state reached by switchMode, appends,
\* clearConversation, clearAll and importStates of any blob,
\* getAvailableModes contains group.
C21_GroupAlwaysExists == "group" \in getAvailableModes(conversationStates)

\* C22: importStates(blob, mode) replaces the store: the bucket map is the
\* blob, whatever was there before, and the current mode is mode when the
\* blob has that bucket and group otherwise.
C22_ImportReplaces ==
  [][\A states \in Blobs, mode \in Modes \cup {NoMode} :
       StoreImportStates(states, mode)
         => /\ DOMAIN conversationStates' = DOMAIN states
            /\ \A k \in DOMAIN states : conversationStates'[k] = states[k]
            /\ currentMode' = IF mode \in DOMAIN states THEN mode ELSE "group"]_vars

\* C22 witness: the store holds a private bucket only, imported over a store
\* that had appended messages of its own, and the current mode fell back to
\* group.
C22_Witness ==
  /\ rounds > 0
  /\ DOMAIN conversationStates = {"A"}
  /\ conversationStates["A"] = <<ImportedMessage>>
  /\ currentMode = "group"

\* C23: importing what exportStates returns, with the current mode, gives a
\* store with the same buckets, the same messages in the same order in each,
\* and the same current mode.
C23_ExportImportRoundTrip ==
  LET blob == exportStates(conversationStates)
      cs2 == importStates(EmptyStates, blob)
  IN /\ DOMAIN cs2 = DOMAIN conversationStates
     /\ \A k \in DOMAIN cs2 : cs2[k] = conversationStates[k]
     /\ importStatesMode(blob, currentMode) = currentMode

\* C23 witness: two buckets with messages, an empty bucket, and a private
\* conversation as the current mode.
C23_Witness ==
  /\ DOMAIN conversationStates = Modes
  /\ currentMode = "A"
  /\ conversationStates["A"] # <<>>
  /\ conversationStates["group"] # <<>>
  /\ conversationStates["B"] = <<>>

\* the page load of this step found a stored blob it could not take in
MalformedLoadStep ==
  /\ reloads' = reloads + 1
  /\ persistedConversations'.malformed # "no"

\* C24 (as claimed): when the stored blob cannot be parsed or imported at
\* startup, the store is the fresh one: exactly one bucket, group, empty, and
\* the current mode group.
C24_MalformedFallsBack ==
  [][MalformedLoadStep
       => /\ getAvailableModes(conversationStates') = {"group"}
          /\ conversationStates'["group"] = <<>>
          /\ currentMode' = "group"]_vars

\* the step changes the store and is not a page load
StoreMutationStep ==
  /\ reloads' = reloads
  /\ <<conversationStates, currentMode>>' # <<conversationStates, currentMode>>

\* C25 (as claimed): after every mutation of the store by the UI or the
\* orchestrator the persisted conversations are the store's buckets and the
\* persisted mode is the store's current mode.
C25_PersistenceFollowsMutation ==
  [][StoreMutationStep
       => /\ persistedConversations'.has
          /\ persistedConversations'.malformed = "no"
          /\ persistedConversations'.states = exportStates(conversationStates')
          /\ persistedMode' = currentMode']_vars

\* C26: switchMode(m) can always be called, makes m the current mode, creates
\* the empty bucket m exactly when there was none, and leaves the messages of
\* every bucket that existed, hence messagesForAgent of every agent, as they
\* were.
C26_SwitchModeFrame ==
  [][\A m \in Modes :
       /\ ENABLED StoreSwitchMode(m)
       /\ StoreSwitchMode(m)
            => /\ currentMode' = m
               /\ DOMAIN conversationStates' = DOMAIN conversationStates \cup {m}
               /\ m \notin DOMAIN conversationStates => conversationStates'[m] = <<>>
               /\ \A k \in DOMAIN conversationStates :
                    conversationStates'[k] = conversationStates[k]
               /\ \A a \in AgentIds :
                    getMessagesForAgent(conversationStates', a)
                      = getMessagesForAgent(conversationStates, a)]_vars

\* C26 witness: the current mode is a private conversation whose bucket is
\* empty, next to two buckets that hold messages.
C26_Witness ==
  /\ reloads = 0
  /\ currentMode = "B"
  /\ DOMAIN conversationStates = Modes
  /\ conversationStates["B"] = <<>>
  /\ conversationStates["A"] # <<>>
  /\ conversationStates["group"] # <<>>

\* the step is a read of the store
StoreReadStep ==
  \/ \E mode \in Modes : StoreGetMessages(mode)
  \/ StoreGetCurrentMessages
  \/ \E agentId \in AgentIds : StoreGetMessagesForAgent(agentId)
  \/ StoreGetCurrentMode
  \/ StoreGetAvailableModes
  \/ \E mode \in Modes : StoreExportStates(mode)

\* C27: the reads change neither the bucket map nor the current mode, and
\* getMessages of a bucket that does not exist returns the empty sequence
\* without creating the bucket.
C27_ReadsArePure ==
  [][/\ StoreReadStep => UNCHANGED <<conversationStates, currentMode>>
     /\ \A mode \in Modes :
          (StoreGetMessages(mode) /\ mode \notin DOMAIN conversationStates)
            => /\ held'.value = <<>>
               /\ mode \notin DOMAIN conversationStates']_vars

\* C27 witness: the caller holds the result of getMessages for a bucket that
\* does not exist, read from a store that holds messages.
C27_Witness ==
  /\ held.from = "getMessages"
  /\ held.mode \notin DOMAIN conversationStates
  /\ held.value = <<>>
  /\ group # <<>>

\* C28: clearConversation(b) leaves bucket b empty and every other bucket and
\* the current mode as they were; clearAll leaves the single empty bucket
\* group and the current mode group.
C28_ExplicitTruncation ==
  [][/\ \A b \in Modes :
          StoreClearConversation(b)
            => /\ DOMAIN conversationStates' = DOMAIN conversationStates \cup {b}
               /\ conversationStates'[b] = <<>>
               /\ \A k \in DOMAIN conversationStates \ {b} :
                    conversationStates'[k] = conversationStates[k]
               /\ currentMode' = currentMode
     /\ StoreClearAll
          => /\ DOMAIN conversationStates' = {"group"}
             /\ conversationStates'["group"] = <<>>
             /\ currentMode' = "group"]_vars

\* C28 witness: bucket A was cleared while the caller held its array, which
\* still shows the messages that were removed; the group bucket kept its own.
C28_Witness ==
  /\ reloads = 0
  /\ held.mode = "A"
  /\ held.from = "getMessages"
  /\ ~held.live
  /\ held.value # <<>>
  /\ "A" \in DOMAIN conversationStates
  /\ getMessages(conversationStates, "A") = <<>>
  /\ group # <<>>

\* the orchestrator is idle: no round in flight, busy and in-progress flags
\* cleared
Idle ==
  /\ ~isLoading
  /\ ~autoTurnInProgress
  /\ sendPc = "idle"
  /\ autoPc = "idle"

\* C29: when every call settles, a manual send that was accepted and an auto
\* round that was started lead to the idle orchestrator, with the busy flag and
\* the in-progress flag cleared, whether the replies were committed or a call
\* failed.
C29_ReturnToIdle == ~Idle ~> Idle

\* C29 witness: the orchestrator is idle again after an auto round whose call
\* failed: the group conversation holds no message of that round.
C29_Witness ==
  /\ reloads = 0
  /\ Idle
  /\ rounds > 0
  /\ autoConversationActive
  /\ autoTurnTimeout
  /\ \A i \in DOMAIN group : group[i].content # rounds

\* the call of an agent fails in a manual round: the group round or the
\* private send
ManualInvocationFails ==
  \/ \E i \in 1..Cardinality(AgentIds) : ResolveGroupCall(i, "fail")
  \/ ResolvePrivateCall("fail")

\* the call of an agent fails, in a manual round or in the auto round
InvocationFails ==
  \/ ManualInvocationFails
  \/ ResolveAutoCall /\ autoCall.outcome = "fail"

\* C30: when the call of an agent fails, the step appends nothing and leaves
\* every bucket as it was, the user's message of a manual round is still in
\* the store, and the orchestrator accepts the next send.
C30_FailureKeepsStore ==
  [][/\ InvocationFails
          => /\ conversationStates' = conversationStates
             /\ ~isLoading'
             /\ sendPc' = "idle"
     /\ ManualInvocationFails
          => \E b \in DOMAIN conversationStates' :
               \E k \in DOMAIN conversationStates'[b] :
                 /\ conversationStates'[b][k].sender = "user"
                 /\ conversationStates'[b][k].content = rounds]_vars

\* C30 witness: a manual group round has failed; the user's message of the
\* round is the last of the group conversation and the orchestrator is idle.
C30_Witness ==
  /\ reloads = 0
  /\ Idle
  /\ ~autoConversationActive
  /\ Len(agents) > 0
  /\ rounds > 0
  /\ group # <<>>
  /\ group[Len(group)] \in
       {Message("user", "everyone", rounds, t) : t \in 0..MaxClock}

\* the timestamps of s never decrease
InTimestampOrder(s) ==
  \A p \in DOMAIN s, q \in DOMAIN s : p < q => s[p].timestamp <= s[q].timestamp

\* from the fresh store with agents A and B: the first round was a send to
\* everyone that both agents answered, the second a private send to A that A
\* answered, and nothing is in flight
C31_ScenarioDone ==
  /\ reloads = 0
  /\ agents = <<"A", "B">>
  /\ rounds = 2
  /\ sendPc = "idle"
  /\ \E k \in DOMAIN conversationStates : \E m \in Range(conversationStates[k]) :
       m.sender = "user" /\ m.recipient = "everyone" /\ m.content = 1
  /\ \A a \in AgentIds :
       \E k \in DOMAIN conversationStates : \E m \in Range(conversationStates[k]) :
         m.sender = a /\ m.content = 1
  /\ \E k \in DOMAIN conversationStates : \E m \in Range(conversationStates[k]) :
       m.sender = "user" /\ m.recipient = "A" /\ m.content = 2
  /\ \E k \in DOMAIN conversationStates : \E m \in Range(conversationStates[k]) :
       m.sender = "A" /\ m.content = 2

\* C31: after that scenario the group bucket is the user's message, A's reply,
\* B's reply; bucket A is the user's whisper and A's reply; messagesForAgent(A)
\* has the 5 messages in timestamp order and messagesForAgent(B) is the 3 group
\* messages.
C31_EndToEndScenario ==
  C31_ScenarioDone =>
    LET bucketA == getMessages(conversationStates, "A")
        viewA == getMessagesForAgent(conversationStates, "A")
        viewB == getMessagesForAgent(conversationStates, "B")
    IN /\ Len(group) = 3
       /\ group[1].sender = "user" /\ group[1].recipient = "everyone"
       /\ group[2].sender = "A" /\ group[2].recipient = "everyone"
       /\ group[3].sender = "B" /\ group[3].recipient = "everyone"
       /\ \A k \in 1..3 : group[k].content = 1
       /\ Len(bucketA) = 2
       /\ bucketA[1].sender = "user" /\ bucketA[1].recipient = "A"
       /\ bucketA[2].sender = "A" /\ bucketA[2].recipient = "user"
       /\ \A k \in 1..2 : bucketA[k].content = 2
       /\ Len(viewA) = 5
       /\ Range(viewA) = Range(group) \cup Range(bucketA)
       /\ InTimestampOrder(viewA)
       /\ viewB = group

\* C31 witness: the scenario has been played to its end.
C31_Witness == C31_ScenarioDone /\ ~isLoading

\* the step belongs to auto-chat: its start, a tick, the settling of its call
\* or the end of its delay
AutoChatStep ==
  \/ startAutoConversation
  \/ executeAutoTurn
  \/ ResolveAutoCall
  \/ AutoDelayDone

\* C32: a reply committed by an auto round is appended to the group bucket
\* with recipient everyone, and no step of auto-chat appends to or changes a
\* private bucket, whatever conversation the user has selected.
C32_AutoChatAddressesEveryone ==
  [][/\ AutoChatStep
          => \A k \in DOMAIN conversationStates \cup DOMAIN conversationStates' :
               k # "group" => /\ k \in DOMAIN conversationStates
                              /\ k \in DOMAIN conversationStates'
                              /\ conversationStates'[k] = conversationStates[k]
     /\ (ResolveAutoCall /\ autoCall.outcome = "ok")
          => \E m \in [sender : {autoCall.agent}, recipient : {"everyone"},
                       content : {rounds}, timestamp : 0..(MaxClock + Len(autoAgents))] :
               getMessages(conversationStates', "group") = Append(group, m)]_vars

\* C32 witness: the user selected the private conversation with A, which
\* holds messages, while an auto round was running; the reply of that round is
\* the last message of the group bucket.
C32_Witness ==
  /\ reloads = 0
  /\ conversationMode = "A"
  /\ currentMode = "A"
  /\ autoPc = "idle"
  /\ getMessages(conversationStates, "A") # <<>>
  /\ group # <<>>
  /\ group[Len(group)].sender # "user"
  /\ group[Len(group)].content = rounds
  /\ ~IsManualRound(rounds)

\* an auto round ends in this step and is counted
AutoRoundCounted ==
  /\ autoPc # "idle"
  /\ autoPc' = "idle"
  /\ autoRoundCount' = autoRoundCount + 1

\* C33: while auto-chat is active, a positive limit N that the completed
\* rounds have reached stops auto-chat in the same step and surfaces the
\* completion notification; an empty or non-positive limit removes the limit
\* and leaves auto-chat active; a round whose end reaches the limit stops
\* auto-chat and surfaces the notification, once per run of auto-chat.
C33_RoundLimitChange ==
  [][/\ \A v \in LimitInputs :
          (handleAutoRoundLimitChange(v) /\ autoConversationActive)
            => /\ (v.kind = "int" /\ v.n > 0 /\ autoRoundCount >= v.n)
                    => /\ ~autoConversationActive'
                       /\ ~autoTurnTimeout'
                       /\ notified' = notified + 1
               /\ (v.kind = "empty" \/ (v.kind = "int" /\ v.n <= 0))
                    => /\ autoRoundLimit' = NoLimit
                       /\ autoConversationActive'
                       /\ autoTurnTimeout' = autoTurnTimeout
                       /\ notified' = notified
     /\ (/\ AutoRoundCounted
         /\ autoConversationActive
         /\ autoRoundLimit # NoLimit
         /\ autoRoundCount' >= autoRoundLimit)
          => /\ ~autoConversationActive'
             /\ ~autoTurnTimeout'
             /\ notified' = notified + 1
     /\ notified' <= 1]_vars

\* C33 witness: a limit that the completed rounds had already reached was set
\* while a round of the active auto-chat was in flight: auto-chat is stopped
\* and the notification was surfaced.
C33_Witness ==
  /\ reloads = 0
  /\ autoPc # "idle"
  /\ ~autoConversationActive
  /\ notified = 1
  /\ autoRoundLimit # NoLimit
  /\ autoRoundCount >= autoRoundLimit

\* C34: startAutoConversation with an empty agent list leaves auto-chat
\* inactive, schedules no tick and leaves the store as it was; a tick of the
\* active auto-chat that finds the agent list empty stops auto-chat, calls no
\* agent and appends nothing.
C34_AutoChatWithoutAgents ==
  [][/\ (startAutoConversation /\ Len(agents) = 0)
          => /\ ~autoConversationActive'
             /\ ~autoTurnTimeout'
             /\ UNCHANGED <<conversationStates, currentMode>>
     /\ (/\ executeAutoTurn
         /\ autoConversationActive /\ ~autoTurnInProgress /\ ~isLoading
         /\ Len(agents) = 0)
          => /\ ~autoConversationActive'
             /\ ~autoTurnTimeout'
             /\ UNCHANGED <<conversationStates, currentMode, rounds, autoPc, autoCall,
                            isLoading, autoTurnInProgress>>]_vars

\* C34 witness: the agent list was emptied while auto-chat was active; the
\* tick that is pending will find no agent.
C34_Witness ==
  /\ Len(agents) = 0
  /\ autoConversationActive
  /\ autoTurnTimeout
  /\ ~autoTurnInProgress
  /\ ~isLoading

\* C35: selecting a private recipient while auto-chat is active stops
\* auto-chat in the same step, with no tick left pending, and no auto round
\* starts while auto-chat is inactive; selecting everyone leaves auto-chat and
\* its pending tick as they were.
C35_PrivateRecipientStopsAutoChat ==
  [][/\ \A r \in Recipients :
          (handleRecipientChange(r) /\ autoConversationActive)
            => IF r = "everyone"
                 THEN /\ autoConversationActive'
                      /\ autoTurnTimeout' = autoTurnTimeout
                 ELSE /\ ~autoConversationActive'
                      /\ ~autoTurnTimeout'
                      /\ currentMode' = r
     /\ (autoPc = "idle" /\ autoPc' # "idle") => autoConversationActive
     /\ ~autoConversationActive' => ~autoTurnTimeout']_vars

\* C35 witness: the private conversation with A was selected while a round of
\* the auto-chat was in flight; auto-chat is stopped, the call is still open.
C35_Witness ==
  /\ recipient = "A"
  /\ currentMode = "A"
  /\ ~autoConversationActive
  /\ ~autoTurnTimeout
  /\ autoTurnInProgress
  /\ autoPc = "await"

\* C36 (as claimed): the conversation mode of the UI, from which the recipient
\* and the bucket of the replies are derived, is the current mode of the
\* store.
C36_ModeAgreement == conversationMode = currentMode

\* C37: while auto-chat is active an auto round is in progress or a tick is
\* pending; and when ticks fire and calls settle, an active auto-chat with no
\* round in progress starts a round or becomes inactive (the model starts no
\* round after round number MaxRounds).
C37_AutoChatNeverStalls ==
  /\ [](autoConversationActive => (autoTurnInProgress \/ autoTurnTimeout))
  /\ (autoConversationActive /\ ~autoTurnInProgress /\ rounds < MaxRounds)
       ~> (autoTurnInProgress \/ ~autoConversationActive)

\* C37 witness: auto-chat was started while a manual send is busy; the tick
\* that is pending will find the send busy.
C37_Witness ==
  /\ autoConversationActive
  /\ autoTurnTimeout
  /\ ~autoTurnInProgress
  /\ isLoading
  /\ sendPc # "idle"

\* no two neighbours of the role list are both assistant
NoConsecutiveAssistant(roles) ==
  \A k \in 1..(Len(roles) - 1) :
    ~(roles[k] = "assistant" /\ roles[k + 1] = "assistant")

\* C38 (as claimed): the role-mapped list of every call in flight, of a manual
\* send or of an auto round, never has two adjacent assistant messages.
C38_NoConsecutiveAssistantTurns ==
  /\ \A i \in DOMAIN sendCalls :
       NoConsecutiveAssistant(
         convertMessagesToApiFormat(sendCalls[i].input, sendCalls[i].agent))
  /\ autoPc = "await" =>
       NoConsecutiveAssistant(
         convertMessagesToApiFormat(autoCall.input, autoCall.agent))

\* C39: while auto-chat is active and a limit is set, the count of completed
\* rounds is below the limit; a start of auto-chat sets the count to 0; and the
\* count changes in no other way than by 1 at the end of an auto round (a page
\* load starts from 0 as well).
C39_RoundCounterBound ==
  [][/\ (autoConversationActive' /\ autoRoundLimit' # NoLimit)
          => autoRoundCount' < autoRoundLimit'
     /\ (startAutoConversation /\ autoConversationActive') => autoRoundCount' = 0
     /\ autoRoundCount' # autoRoundCount
          => \/ startAutoConversation /\ autoRoundCount' = 0
             \/ Reload /\ autoRoundCount' = 0
             \/ AutoRoundCounted]_vars

\* C39 witness: auto-chat was started again, with a limit set, after a run
\* that had completed a round: a round is in progress and the count is 0.
C39_Witness ==
  /\ reloads = 0
  /\ autoConversationActive
  /\ autoRoundLimit # NoLimit
  /\ autoRoundCount = 0
  /\ rounds = 2
  /\ autoPc = "await"
  /\ Len(group) >= 2
  /\ \A k \in DOMAIN group : group[k].content = 1 /\ group[k].sender # "user"
====
